---- MODULE Spec2Model ----
(***************************************************************************)
(* A model of aten/src/ATen/native/UnaryOps.cpp: the facade that derives   *)
(* the out-of-place, into-buffer and in-place forms of the elementwise     *)
(* unary operations, with its domain checks, the complex-to-real policy,   *)
(* the view extraction of real/imag and the digamma family.                *)
(*                                                                         *)
(* A world w is the memory the call works on: w.t maps tensor names to     *)
(* views (storage, offset, shape, strides in cells, dtype, device, layout),*)
(* w.mem maps storages to their cells (a complex element takes two cells), *)
(* w.trace is the sequence of steps taken so far, w.err the failure raised *)
(* ("none" while the call runs), w.ret the tensor returned.  A failed      *)
(* TORCH_CHECK throws: every later step of the call leaves w alone.        *)
(***************************************************************************)
EXTENDS Integers, Sequences, FiniteSets, TLC

\* ------------------------------------------------------------------ bounds
\* Largest size of a dimension of a caller's tensor.
MaxSize == 2
\* Largest polygamma order and mvlgamma multiplicity a caller passes.
MaxOrder == 2

\* ------------------------------------------------------------------ dtypes
ComplexTypes == {"ComplexFloat", "ComplexDouble"}
FloatingTypes == {"Float", "Double"}
DTypes == {"Bool", "Long"} \cup FloatingTypes \cup ComplexTypes

isComplexType(d) == d \in ComplexTypes

isFloatingType(d) == d \in FloatingTypes

\* c10::toValueType: the real-valued counterpart of a complex dtype.
toValueType(d) ==
  CASE d = "ComplexFloat" -> "Float"
    [] d = "ComplexDouble" -> "Double"
    [] OTHER -> d

\* c10::canCast: no complex -> non-complex, no floating -> integral, and
\* nothing but bool -> bool.
canCast(from, to) ==
  /\ ~(isComplexType(from) /\ ~isComplexType(to))
  /\ ~(isFloatingType(from) /\ to = "Long")
  /\ ~(from # "Bool" /\ to = "Bool")

\* Cells one element of the dtype takes.
CellsPer(d) == IF isComplexType(d) THEN 2 ELSE 1

\* ------------------------------------------------------------------ shapes
RECURSIVE Prod(_, _)
Prod(s, k) == IF k > Len(s) THEN 1 ELSE s[k] * Prod(s, k + 1)

Numel(shape) == Prod(shape, 1)

\* Strides of a contiguous view, in cells.
ContigStrides(shape, d) ==
  [k \in 1..Len(shape) |-> CellsPer(d) * Prod(shape, k + 1)]

RECURSIVE MaxDim(_, _)
MaxDim(s, k) ==
  IF k > Len(s) THEN 0
  ELSE LET m == MaxDim(s, k + 1) IN IF s[k] > m THEN s[k] ELSE m

\* The index tuples (0-based) of a shape.
Indices(shape) ==
  {i \in [1..Len(shape) -> 0..(MaxDim(shape, 1) - 1)] :
     \A k \in 1..Len(shape) : i[k] < shape[k]}

RECURSIVE Dot(_, _, _)
Dot(i, strides, k) ==
  IF k > Len(i) THEN 0 ELSE i[k] * strides[k] + Dot(i, strides, k + 1)

\* The first cell (0-based, within its storage) of element i of view t.
CellOf(t, i) == t.off + Dot(i, t.strides, 1)

\* The cells a view covers.
CellsOf(t) ==
  UNION {{CellOf(t, i) + j : j \in 0..(CellsPer(t.dtype) - 1)} : i \in Indices(t.shape)}

\* Shape a broadcasts to shape b: right-aligned, each dimension equal or 1.
BroadcastableTo(a, b) ==
  /\ Len(a) <= Len(b)
  /\ \A k \in 1..Len(a) :
       LET kb == k + Len(b) - Len(a) IN a[k] = b[kb] \/ a[k] = 1

\* The index of the input element read for output index i (stride 0 on a
\* broadcast dimension).
BroadcastIndex(inShape, outShape, i) ==
  [k \in 1..Len(inShape) |->
     IF inShape[k] = 1 THEN 0 ELSE i[k + Len(outShape) - Len(inShape)]]

\* ------------------------------------------------------------------ memory
\* A value is a pair <<re, im>>; a real element has im = 0.
ReadElem(mem, t, i) ==
  LET c == CellOf(t, i) + 1 IN
  IF isComplexType(t.dtype) THEN <<mem[t.st][c], mem[t.st][c + 1]>>
  ELSE <<mem[t.st][c], 0>>

\* The cast of a value into a dtype: its real part, or its truth value.
CastRe(d, v) ==
  IF d = "Bool" THEN (IF v[1] # 0 \/ v[2] # 0 THEN 1 ELSE 0) ELSE v[1]

\* Storage of view t after every element i is set to vals[i], cast to t's dtype.
WriteAll(mem, t, vals) ==
  [mem EXCEPT ![t.st] =
     [c \in 1..Len(@) |->
        LET re == {i \in Indices(t.shape) : CellOf(t, i) + 1 = c}
            im == IF isComplexType(t.dtype)
                  THEN {i \in Indices(t.shape) : CellOf(t, i) + 2 = c}
                  ELSE {}
        IN IF re # {} THEN CastRe(t.dtype, vals[CHOOSE i \in re : TRUE])
           ELSE IF im # {} THEN vals[CHOOSE i \in im : TRUE][2]
           ELSE @[c]]]

\* The elements of a view, by index.
Contents(mem, t) == [i \in Indices(t.shape) |-> ReadElem(mem, t, i)]

Event(e, x, y) == [ev |-> e, a |-> x, b |-> y]

Log(w, e, x, y) == [w EXCEPT !.trace = Append(@, Event(e, x, y))]

\* TORCH_CHECK(cond, ...): throws the failure unless cond holds.
TORCH_CHECK(w, cond, failure) ==
  IF w.err # "none" THEN w
  ELSE IF cond THEN Log(w, "check", failure, "")
  ELSE [Log(w, "check", failure, "") EXCEPT !.err = failure]

\* return t: the call ends and hands t to the caller.
Return(w, name) == IF w.err # "none" THEN w ELSE [w EXCEPT !.ret = name]

TmpNames == <<"t1", "t2", "t3", "t4">>

\* The name the next allocated tensor gets.
NextName(w) == TmpNames[Cardinality({k \in DOMAIN TmpNames : TmpNames[k] \in DOMAIN w.t}) + 1]

\* at::empty({0}, options): a fresh tensor of shape [0] over a fresh storage.
empty(w, name, d, device, layout) ==
  IF w.err # "none" THEN w
  ELSE Log([w EXCEPT
              !.t = @ @@ (name :> [st |-> name, off |-> 0, shape |-> <<0>>,
                                   strides |-> ContigStrides(<<0>>, d), dtype |-> d,
                                   device |-> device, layout |-> layout]),
              !.mem = @ @@ (name :> <<>>)],
           "alloc", name, d)

\* Tensor::resize_: nothing changes when the shape is the view's own; else
\* the view becomes contiguous with the new shape, and its storage grows, by
\* uninitialized cells, when it is too small.
resize_(w, name, shape) ==
  IF w.err # "none" THEN w
  ELSE LET t == w.t[name]
           need == t.off + CellsPer(t.dtype) * Numel(shape)
           have == Len(w.mem[t.st])
       IN IF shape = t.shape THEN Log(w, "resize", name, "")
          ELSE
          Log([w EXCEPT
                 !.t[name].shape = shape,
                 !.t[name].strides = ContigStrides(shape, t.dtype),
                 !.mem[t.st] = IF need > have
                               THEN @ \o [k \in 1..(need - have) |-> w.junk]
                               ELSE @],
              "resize", name, "")

\* Tensor::copy_: every element of dst is set to the cast of src's, src
\* broadcast to dst's shape.
copy_(w, dst, src) ==
  IF w.err # "none" THEN w
  ELSE LET d == w.t[dst]
           s == w.t[src]
       IN Log([w EXCEPT !.mem = WriteAll(@, d,
                 [i \in Indices(d.shape) |->
                    ReadElem(w.mem, s, BroadcastIndex(s.shape, d.shape, i))])],
              "copy", dst, src)

\* ------------------------------------------------------------- the builder
\* Two views overlap other than by exact self-aliasing: they share cells of
\* one storage and are not the same view.
PartialOverlap(o, i) ==
  /\ o.st = i.st
  /\ CellsOf(o) \cap CellsOf(i) # {}
  /\ ~(o.off = i.off /\ o.shape = i.shape /\ o.strides = i.strides /\ o.dtype = i.dtype)

\* The iteration plan builder on one output and one input: the overlap check
\* (when requested), the dtype policy, then the shape: an output of shape [0]
\* is materialised with the input's shape, any other output must be a shape
\* the input broadcasts to.
TensorIterator_build(w, out, in, check_mem_overlap, check_all_same_dtype) ==
  IF w.err # "none" THEN w
  ELSE LET o == w.t[out]
           i == w.t[in]
       IN IF check_mem_overlap /\ PartialOverlap(o, i)
          THEN [w EXCEPT !.err = "UnsafeAliasing"]
          ELSE IF check_all_same_dtype /\ o.dtype # i.dtype
          THEN [w EXCEPT !.err = "UnsupportedDtype"]
          ELSE IF o.shape = <<0>>
          THEN Log(resize_(w, out, i.shape), "plan", out, in)
          ELSE IF ~BroadcastableTo(i.shape, o.shape)
          THEN [w EXCEPT !.err = "ShapeMismatch"]
          ELSE Log(w, "plan", out, in)

\* TensorIterator::unary_op(result, self, check_mem_overlap).
TensorIterator_unary_op(w, out, in, check_mem_overlap) ==
  TensorIterator_build(w, out, in, check_mem_overlap, TRUE)

\* ------------------------------------------------------------- the kernels
\* A double is held as its integer part and the digits of its fraction, four
\* to a group.  Carry(n, frac, k) is the integer part of n times the
\* fraction from its k-th group on, for n >= 0.
RECURSIVE Carry(_, _, _)
Carry(n, frac, k) ==
  IF k > Len(frac) THEN 0 ELSE (n * frac[k] + Carry(n, frac, k + 1)) \div 10000

\* The integer part of n * c, towards zero: what a cell shows of the product.
TruncatedProduct(n, c) ==
  IF n >= 0 THEN n * c.int + Carry(n, c.frac, 1)
  ELSE -((-n) * c.int + Carry(-n, c.frac, 1))

Abs(x) == IF x < 0 THEN -x ELSE x

Sign(x) == IF x < 0 THEN -1 ELSE IF x > 0 THEN 1 ELSE 0

\* The stubs whose kernels are defined for floating dtypes only.
FloatingOnlyStubs == {"digamma", "polygamma"}

\* The value a kernel computes for one element; x holds the scalar
\* arguments.  Values are integers: the operations that are exact on them are
\* computed, the others stand for the opaque kernel bodies.
KernelValue(stub, v, x) ==
  CASE stub = "neg" -> <<-v[1], -v[2]>>
    [] stub = "conj" -> <<v[1], -v[2]>>
    [] stub = "abs" -> <<IF v[2] = 0 THEN Abs(v[1]) ELSE v[1] * v[1] + v[2] * v[2], 0>>
    [] stub = "angle" ->
         <<IF v[2] = 0 THEN (IF v[1] < 0 THEN 3 ELSE 0) ELSE v[1] + 2 * v[2], 0>>
    [] stub = "sign" -> <<Sign(v[1]), 0>>
    [] stub = "logical_not" -> <<IF v = <<0, 0>> THEN 1 ELSE 0, 0>>
    [] stub = "bitwise_not" -> <<-v[1] - 1, 0>>
    [] stub \in {"ceil", "floor", "trunc", "round"} -> v
    [] stub = "frac" -> <<0, 0>>
    [] stub = "clamp" ->
         <<IF v[1] < x.min THEN x.min ELSE IF v[1] > x.max THEN x.max ELSE v[1], 0>>
    [] stub = "clamp_min" -> <<IF v[1] < x.min THEN x.min ELSE v[1], 0>>
    [] stub = "clamp_max" -> <<IF v[1] > x.max THEN x.max ELSE v[1], 0>>
    [] stub = "pow" -> <<v[1] * v[1] - v[2] * v[2], 2 * v[1] * v[2]>>
    [] stub = "mul" -> <<TruncatedProduct(v[1], x.scalar), TruncatedProduct(v[2], x.scalar)>>
    [] stub = "polygamma" -> <<2 * v[1] + 1 + x.n, 0>>
    [] OTHER -> <<2 * v[1] + 1, 2 * v[2]>>

\* DispatchStub::operator()(device_type, iter, ...): the kernel registered
\* for the plan's device is looked up and invoked on the plan; it writes
\* every element of the plan's output.
stub_call(w, stub, out, in, x) ==
  IF w.err # "none" THEN w
  ELSE LET dev == w.t[out].device
           w1 == Log(w, "lookup", stub, dev)
       IN IF ~w.table[dev] THEN [w1 EXCEPT !.err = "UnsupportedDevice"]
          ELSE LET w2 == Log(w1, "kernel", stub, out)
                   o == w.t[out]
                   i == w.t[in]
               IN IF stub \in FloatingOnlyStubs /\ ~isFloatingType(i.dtype)
                  THEN [w2 EXCEPT !.err = "UnsupportedDtype"]
                  ELSE [w2 EXCEPT !.mem = WriteAll(@, o,
                          [k \in Indices(o.shape) |->
                             KernelValue(stub,
                               ReadElem(w.mem, i, BroadcastIndex(i.shape, o.shape, k)), x)])]

\* --------------------------------------------------------------- the facade
\* A variant of unary_op_impl_out that builds its plan without the overlap check.
unary_op_impl_out_unchecked(w, result, self, stub, x) ==
  LET w1 == TensorIterator_unary_op(w, result, self, FALSE)
      w2 == stub_call(w1, stub, result, self, x)
  IN Return(w2, result)

\* unary_op_impl_out: plan over (result, self) with the overlap check, then
\* the stub on the plan's device.
unary_op_impl_out(w, result, self, stub, x) ==
  LET w1 == TensorIterator_unary_op(w, result, self, TRUE)
      w2 == stub_call(w1, stub, result, self, x)
  IN Return(w2, result)

\* A variant of unary_op_impl_with_complex_to_float_out that does not check
\* that the cast into the result is legal.
complex_to_float_out_unchecked(w, result, self, stub, x) ==
  IF w.err # "none" THEN w
  ELSE IF isComplexType(w.t[self].dtype) /\ ~isComplexType(w.t[result].dtype)
  THEN LET complex_result == NextName(w)
           w2 == empty(w, complex_result, w.t[self].dtype, w.t[self].device,
                       w.t[self].layout)
           w3 == TensorIterator_unary_op(w2, complex_result, self, TRUE)
           w4 == stub_call(w3, stub, complex_result, self, x)
           w5 == resize_(w4, result, w4.t[complex_result].shape)
           w6 == copy_(w5, result, complex_result)
       IN Return(w6, result)
  ELSE unary_op_impl_out(w, result, self, stub, x)

\* A variant of unary_op_impl_with_complex_to_float_out that copies the
\* temporary into the result without resizing it.
complex_to_float_out_unresized(w, result, self, stub, x) ==
  IF w.err # "none" THEN w
  ELSE IF isComplexType(w.t[self].dtype) /\ ~isComplexType(w.t[result].dtype)
  THEN LET float_type == toValueType(w.t[self].dtype)
           w1 == TORCH_CHECK(w, canCast(float_type, w.t[result].dtype), "InvalidCast")
           complex_result == NextName(w)
           w2 == empty(w1, complex_result, w.t[self].dtype, w.t[self].device,
                       w.t[self].layout)
           w3 == TensorIterator_unary_op(w2, complex_result, self, TRUE)
           w4 == stub_call(w3, stub, complex_result, self, x)
           w6 == copy_(w4, result, complex_result)
       IN Return(w6, result)
  ELSE unary_op_impl_out(w, result, self, stub, x)

\* A variant of unary_op_impl_with_complex_to_float_out that takes the
\* temporary for every complex input, whatever the result's dtype.
complex_to_float_out_always_temp(w, result, self, stub, x) ==
  IF w.err # "none" THEN w
  ELSE IF isComplexType(w.t[self].dtype)
  THEN LET float_type == toValueType(w.t[self].dtype)
           w1 == TORCH_CHECK(w, canCast(float_type, w.t[result].dtype), "InvalidCast")
           complex_result == NextName(w)
           w2 == empty(w1, complex_result, w.t[self].dtype, w.t[self].device,
                       w.t[self].layout)
           w3 == TensorIterator_unary_op(w2, complex_result, self, TRUE)
           w4 == stub_call(w3, stub, complex_result, self, x)
           w5 == resize_(w4, result, w4.t[complex_result].shape)
           w6 == copy_(w5, result, complex_result)
       IN Return(w6, result)
  ELSE unary_op_impl_out(w, result, self, stub, x)

\* unary_op_impl_with_complex_to_float_out: a complex input with a
\* non-complex result is computed into a complex temporary, which is then
\* copied into the resized result; anything else takes unary_op_impl_out.
unary_op_impl_with_complex_to_float_out(w, result, self, stub, x) ==
  IF w.err # "none" THEN w
  ELSE IF isComplexType(w.t[self].dtype) /\ ~isComplexType(w.t[result].dtype)
  THEN LET float_type == toValueType(w.t[self].dtype)
           w1 == TORCH_CHECK(w, canCast(float_type, w.t[result].dtype), "InvalidCast")
           complex_result == NextName(w)
           w2 == empty(w1, complex_result, w.t[self].dtype, w.t[self].device,
                       w.t[self].layout)
           w3 == TensorIterator_unary_op(w2, complex_result, self, TRUE)
           w4 == stub_call(w3, stub, complex_result, self, x)
           w5 == resize_(w4, result, w4.t[complex_result].shape)
           w6 == copy_(w5, result, complex_result)
       IN Return(w6, result)
  ELSE unary_op_impl_out(w, result, self, stub, x)

\* The operations defined as one line over unary_op_impl_out and their stub.
PlainOps ==
  {"acos", "asin", "atan", "conj", "bitwise_not", "exp", "expm1", "erf", "erfc",
   "frac", "log", "log10", "log1p", "log2", "round", "digamma", "reciprocal",
   "rsqrt", "sign", "sin", "cos", "sinh", "cosh", "acosh", "asinh", "atanh",
   "sqrt", "sigmoid", "tanh", "tan"}

\* ceil_out, floor_out, trunc_out: complex inputs are rejected first.
RoundingOps == {"ceil", "floor", "trunc"}

rounding_out(w, op, result, self, x) ==
  LET w1 == TORCH_CHECK(w, ~isComplexType(w.t[self].dtype), "UnsupportedDtype")
  IN unary_op_impl_out(w1, result, self, op, x)

\* A variant of neg_out without the check of the input's dtype.
neg_out_unchecked(w, result, self, x) == unary_op_impl_out(w, result, self, "neg", x)

\* neg_out: a bool input is rejected first.
neg_out(w, result, self, x) ==
  LET w1 == TORCH_CHECK(w, w.t[self].dtype # "Bool", "UnsupportedDtype")
  IN unary_op_impl_out(w1, result, self, "neg", x)

abs_out(w, result, self, x) ==
  unary_op_impl_with_complex_to_float_out(w, result, self, "abs", x)

angle_out(w, result, self, x) ==
  unary_op_impl_with_complex_to_float_out(w, result, self, "angle", x)

\* wrapped_scalar_tensor + at::mul_out(result, self, scalar): the product of
\* self and a scalar, through a plan over result and self.
mul_out(w, result, self, scalar) ==
  LET w1 == TensorIterator_build(w, result, self, TRUE, TRUE)
      w2 == stub_call(w1, "mul", result, self, [scalar |-> scalar])
  IN Return(w2, result)

\* The factors of rad2deg and deg2rad as the doubles they compile to:
\* 57.295779513082323 and 0.017453292519943295.
M_180_PI == [int |-> 57, frac |-> <<2957, 7951, 3082, 3230>>]
M_PI_180 == [int |-> 0, frac |-> <<174, 5329, 2519, 9432, 9500>>]

rad2deg_out(w, result, self, x) ==
  LET w1 == TORCH_CHECK(w, ~isComplexType(w.t[self].dtype), "UnsupportedDtype")
  IN mul_out(w1, result, self, M_180_PI)

deg2rad_out(w, result, self, x) ==
  LET w1 == TORCH_CHECK(w, ~isComplexType(w.t[self].dtype), "UnsupportedDtype")
  IN mul_out(w1, result, self, M_PI_180)

\* logical_not_out: its own plan, output and input dtypes free to differ.
logical_not_out(w, result, self, x) ==
  LET w1 == TensorIterator_build(w, result, self, TRUE, FALSE)
      w2 == stub_call(w1, "logical_not", result, self, x)
  IN Return(w2, result)

clamp_max_out(w, result, self, x) ==
  LET w1 == TORCH_CHECK(w, ~isComplexType(w.t[self].dtype), "UnsupportedDtype")
      w2 == TORCH_CHECK(w1, w.t[self].layout = "Strided", "UnsupportedLayout")
      w3 == TensorIterator_unary_op(w2, result, self, TRUE)
      w4 == stub_call(w3, "clamp_max", result, self, x)
  IN Return(w4, result)

clamp_min_out(w, result, self, x) ==
  LET w1 == TORCH_CHECK(w, ~isComplexType(w.t[self].dtype), "UnsupportedDtype")
      w2 == TORCH_CHECK(w1, w.t[self].layout = "Strided", "UnsupportedLayout")
      w3 == TensorIterator_unary_op(w2, result, self, TRUE)
      w4 == stub_call(w3, "clamp_min", result, self, x)
  IN Return(w4, result)

\* A variant of clamp_out that hands a call with only max to clamp_min_out.
clamp_out_swapped(w, result, self, x) ==
  LET w1 == TORCH_CHECK(w, ~isComplexType(w.t[self].dtype), "UnsupportedDtype")
  IN IF w1.err # "none" THEN w1
     ELSE IF x.hasMin /\ x.hasMax
     THEN LET w2 == TORCH_CHECK(w1, w.t[self].layout = "Strided", "UnsupportedLayout")
              w3 == TensorIterator_unary_op(w2, result, self, TRUE)
              w4 == stub_call(w3, "clamp", result, self, x)
          IN Return(w4, result)
     ELSE IF x.hasMax THEN Return(clamp_min_out(w1, result, self, x), result)
     ELSE IF x.hasMin THEN Return(clamp_min_out(w1, result, self, x), result)
     ELSE TORCH_CHECK(w1, FALSE, "InvalidArgument")

\* clamp_out: the bounds present choose the kernel; none is an error.
clamp_out(w, result, self, x) ==
  LET w1 == TORCH_CHECK(w, ~isComplexType(w.t[self].dtype), "UnsupportedDtype")
  IN IF w1.err # "none" THEN w1
     ELSE IF x.hasMin /\ x.hasMax
     THEN LET w2 == TORCH_CHECK(w1, w.t[self].layout = "Strided", "UnsupportedLayout")
              w3 == TensorIterator_unary_op(w2, result, self, TRUE)
              w4 == stub_call(w3, "clamp", result, self, x)
          IN Return(w4, result)
     ELSE IF x.hasMax THEN Return(clamp_max_out(w1, result, self, x), result)
     ELSE IF x.hasMin THEN Return(clamp_min_out(w1, result, self, x), result)
     ELSE TORCH_CHECK(w1, FALSE, "InvalidArgument")

polygamma_out(w, result, self, x) ==
  LET w1 == TORCH_CHECK(w, x.n >= 0, "InvalidArgument")
      w2 == TensorIterator_unary_op(w1, result, self, TRUE)
      w3 == stub_call(w2, "polygamma", result, self, x)
  IN Return(w3, result)

\* IMPLEMENT_UNARY_OP_OUT_INPLACE: _op_out_<prefix>, for erfinv and lgamma.
MacroOps == {"erfinv", "lgamma"}

\* A variant of macro_out that invokes the stub a second time.
macro_out_repeated(w, op, device, result, self, x) ==
  LET w1 == TORCH_CHECK(w, w.t[result].device = device, "UnsupportedDevice")
      w2 == TORCH_CHECK(w1, w.t[result].layout = "Strided", "UnsupportedLayout")
      w3 == TensorIterator_unary_op(w2, result, self, TRUE)
      w4 == stub_call(w3, op, result, self, x)
      w5 == stub_call(w4, op, result, self, x)
  IN Return(w5, result)

macro_out(w, op, device, result, self, x) ==
  LET w1 == TORCH_CHECK(w, w.t[result].device = device, "UnsupportedDevice")
      w2 == TORCH_CHECK(w1, w.t[result].layout = "Strided", "UnsupportedLayout")
      w3 == TensorIterator_unary_op(w2, result, self, TRUE)
      w4 == stub_call(w3, op, result, self, x)
  IN Return(w4, result)

\* at::pow_out(result, self, 2), which square and square_ call.
pow_out(w, result, self, x) ==
  LET w1 == TensorIterator_build(w, result, self, TRUE, TRUE)
      w2 == stub_call(w1, "pow", result, self, x)
  IN Return(w2, result)

\* at::<op>_out(result, self): the dispatch to the native into-buffer form;
\* erfinv and lgamma go to the form of the tensors' device.
at_out(w, op, result, self, x) ==
  CASE op \in PlainOps -> unary_op_impl_out(w, result, self, op, x)
    [] op \in RoundingOps -> rounding_out(w, op, result, self, x)
    [] op = "neg" -> neg_out(w, result, self, x)
    [] op = "abs" -> abs_out(w, result, self, x)
    [] op = "angle" -> angle_out(w, result, self, x)
    [] op = "rad2deg" -> rad2deg_out(w, result, self, x)
    [] op = "deg2rad" -> deg2rad_out(w, result, self, x)
    [] op = "logical_not" -> logical_not_out(w, result, self, x)
    [] op = "clamp" -> clamp_out(w, result, self, x)
    [] op = "clamp_max" -> clamp_max_out(w, result, self, x)
    [] op = "clamp_min" -> clamp_min_out(w, result, self, x)
    [] op = "polygamma" -> polygamma_out(w, result, self, x)
    [] op \in MacroOps ->
         IF w.err # "none" THEN w
         ELSE macro_out(w, op, w.t[result].device, result, self, x)
    [] op = "pow" -> pow_out(w, result, self, x)

\* A variant of unary_op_impl that passes self as the result.
unary_op_impl_into_self(w, self, op, x) == at_out(w, op, self, self, x)

\* unary_op_impl: a fresh result of self's options, then the into-buffer form.
unary_op_impl(w, self, op, x) ==
  IF w.err # "none" THEN w
  ELSE LET result == NextName(w)
           w1 == empty(w, result, w.t[self].dtype, w.t[self].device, w.t[self].layout)
       IN at_out(w1, op, result, self, x)

\* unary_op_impl_with_complex_to_float: for a complex self the fresh result
\* has the real-valued counterpart of self's dtype.
unary_op_impl_with_complex_to_float(w, self, op, x) ==
  IF w.err # "none" THEN w
  ELSE LET result == NextName(w)
           t == w.t[self]
       IN IF isComplexType(t.dtype)
          THEN at_out(empty(w, result, toValueType(t.dtype), t.device, t.layout),
                      op, result, self, x)
          ELSE at_out(empty(w, result, t.dtype, t.device, t.layout), op, result, self, x)

\* A variant of unary_op_impl_ that computes into a fresh result and leaves
\* self alone.
unary_op_impl__fresh(w, self, op, x) == unary_op_impl(w, self, op, x)

\* unary_op_impl_: the into-buffer form with self as result and input.
unary_op_impl_(w, self, op, x) == at_out(w, op, self, self, x)

\* view_complex_as_float: the same storage seen as real values, with a
\* trailing dimension of the two components.
view_complex_as_float(w, name, self) ==
  LET t == w.t[self]
  IN Log([w EXCEPT !.t = @ @@ (name :>
            [t EXCEPT !.shape = @ \o <<2>>, !.strides = @ \o <<1>>,
                      !.dtype = toValueType(t.dtype)])],
         "view", name, self)

\* at::select(t, dim, index) on the last dimension: a view without it.
select_last(w, name, src, index) ==
  LET t == w.t[src]
      d == Len(t.shape)
  IN Log([w EXCEPT !.t = @ @@ (name :>
            [t EXCEPT !.shape = SubSeq(@, 1, d - 1), !.strides = SubSeq(@, 1, d - 1),
                      !.off = @ + index * t.strides[d]])],
         "view", name, src)

real(w, self) ==
  IF isComplexType(w.t[self].dtype)
  THEN LET float_tensor == NextName(w)
           w1 == view_complex_as_float(w, float_tensor, self)
           out == NextName(w1)
       IN Return(select_last(w1, out, float_tensor, 0), out)
  ELSE TORCH_CHECK(w, FALSE, "UnsupportedDtype")

\* A variant of imag that selects the first component.
imag_first(w, self) ==
  IF isComplexType(w.t[self].dtype)
  THEN LET float_tensor == NextName(w)
           w1 == view_complex_as_float(w, float_tensor, self)
           out == NextName(w1)
       IN Return(select_last(w1, out, float_tensor, 0), out)
  ELSE TORCH_CHECK(w, FALSE, "UnsupportedDtype")

imag(w, self) ==
  IF isComplexType(w.t[self].dtype)
  THEN LET float_tensor == NextName(w)
           w1 == view_complex_as_float(w, float_tensor, self)
           out == NextName(w1)
       IN Return(select_last(w1, out, float_tensor, 1), out)
  ELSE TORCH_CHECK(w, FALSE, "UnsupportedDtype")

\* square: at::pow(self, 2), a fresh result filled by pow_out.
square(w, self, x) ==
  LET result == NextName(w)
      w1 == empty(w, result, w.t[self].dtype, w.t[self].device, w.t[self].layout)
  IN at_out(w1, "pow", result, self, x)

square_(w, self, x) == at_out(w, "pow", self, self, x)

logical_not(w, self, x) ==
  LET result == NextName(w)
      w1 == empty(w, result, "Bool", w.t[self].device, w.t[self].layout)
  IN at_out(w1, "logical_not", result, self, x)

logical_not_(w, self, x) == at_out(w, "logical_not", self, self, x)

ClampOps == {"clamp", "clamp_max", "clamp_min"}

\* clamp, clamp_max, clamp_min: a fresh result of self's options.
clamp(w, op, self, x) ==
  LET result == NextName(w)
      w1 == empty(w, result, w.t[self].dtype, w.t[self].device, w.t[self].layout)
  IN at_out(w1, op, result, self, x)

\* A variant of clamp_ that clamps into a fresh tensor and copies it into self.
clamp__by_copy(w, op, self, x) ==
  LET w1 == clamp(w, op, self, x)
  IN Return(copy_(w1, self, w1.ret), self)

clamp_(w, op, self, x) == at_out(w, op, self, self, x)

polygamma(w, self, x) ==
  LET result == NextName(w)
      w1 == empty(w, result, w.t[self].dtype, w.t[self].device, w.t[self].layout)
  IN Return(at_out(w1, "polygamma", result, self, x), result)

polygamma_(w, self, x) == at_out(w, "polygamma", self, self, x)

\* IMPLEMENT_UNARY_OP_CORE: op(self) for erfinv and lgamma.
macro_core(w, op, self, x) ==
  LET result == NextName(w)
      w1 == empty(w, result, w.t[self].dtype, w.t[self].device, w.t[self].layout)
  IN Return(at_out(w1, op, result, self, x), result)

\* IMPLEMENT_UNARY_OP_OUT_INPLACE: _op__<prefix>(self).
macro_(w, op, self, x) == at_out(w, op, self, self, x)

\* mvlgamma_check: floating dtype, then every element > (p-1)/2 (an
\* elementwise comparison and a reduction), then p >= 1.
mvlgamma_check(w, self, p) ==
  LET w1 == TORCH_CHECK(w, isFloatingType(w.t[self].dtype), "UnsupportedDtype")
      w2 == IF w1.err # "none" THEN w1
            ELSE Log(Log(w1, "kernel", "gt", ""), "kernel", "all", "")
      w3 == TORCH_CHECK(w2,
              \A i \in Indices(w.t[self].shape) :
                 2 * ReadElem(w.mem, w.t[self], i)[1] > p - 1,
              "InvalidArgument")
  IN TORCH_CHECK(w3, p >= 1, "InvalidArgument")

\* A local of a call goes out of scope: its view and its storage are gone.
Release(w, name) ==
  [w EXCEPT !.t = [n \in DOMAIN @ \ {name} |-> @[n]],
            !.mem = [n \in DOMAIN @ \ {name} |-> @[n]]]

\* args = arange(-p/2 + 0.5, 0.5, 0.5, self.options()).add(self.unsqueeze(-1)):
\* a tensor of self's shape with a last dimension of p, element (i, j)
\* holding self[i] + (1 - p + j)/2, kept in half units.
mvlgamma_args(w, self, p) ==
  IF w.err # "none" THEN w
  ELSE LET t == w.t[self]
           shape == t.shape \o <<p>>
           a == [st |-> "args", off |-> 0, shape |-> shape,
                 strides |-> ContigStrides(shape, t.dtype), dtype |-> t.dtype,
                 device |-> t.device, layout |-> t.layout]
           w1 == Log(Log(w, "kernel", "arange", ""), "kernel", "add", "")
       IN [w1 EXCEPT
             !.t = @ @@ ("args" :> a),
             !.mem = WriteAll(@ @@ ("args" :> [k \in 1..Numel(shape) |-> 0]), a,
                       [i \in Indices(shape) |->
                          <<2 * ReadElem(w.mem, t, SubSeq(i, 1, Len(t.shape)))[1]
                              + 1 - p + i[Len(shape)], 0>>])]

\* sum(-1): the sum of the elements (i, j), ..., (i, p - 1) of a.
RECURSIVE SumLgamma(_, _, _, _)
SumLgamma(mem, a, i, j) ==
  IF j >= a.shape[Len(a.shape)] THEN 0
  ELSE ReadElem(mem, a, i \o <<j>>)[1] + SumLgamma(mem, a, i, j + 1)

\* Tensor::lgamma_() on a local: _lgamma__<prefix>(self) of self's device,
\* which is at::lgamma_out(self, self), that is _lgamma_out_<prefix>.
lgamma_(w, self) ==
  IF w.err # "none" THEN w
  ELSE macro_out(w, "lgamma", w.t[self].device, self, self, <<>>)

\* std::log(M_PI) / 4. as a double: 0.28618247146235004.
LogPiOver4 == [int |-> 0, frac |-> <<2861, 8247, 1462, 3500>>]

\* What a cell shows of the integer s plus n * log(pi) / 4, n >= 0: the sum
\* towards zero.
AddLogPi(s, n) ==
  LET a == TruncatedProduct(n, LogPiOver4)
  IN IF n # 0 /\ s + a < 0 THEN s + a + 1 ELSE s + a

\* sum(-1).add_(p * (p - 1) * log(pi) / 4) of args into the fresh tensor name.
mvlgamma_reduce(w, name, shape, p) ==
  [w EXCEPT !.mem = WriteAll(@, w.t[name],
     [i \in Indices(shape) |->
        <<AddLogPi(SumLgamma(w.mem, w.t["args"], i, 0), p * (p - 1)), 0>>])]

\* args.lgamma_().sum(-1).add_(p * (p - 1) * log(pi) / 4): lgamma_ runs in
\* place on args (checks, plan over (args, args), stub); the sum is a fresh
\* tensor of self's shape; args is a local of the call.
mvlgamma_sum(w, name, self, p) ==
  IF w.err # "none" THEN w
  ELSE LET t == w.t[self]
           w2 == lgamma_(mvlgamma_args(w, self, p), "args")
           w3 == resize_(empty(w2, name, t.dtype, t.device, t.layout), name, t.shape)
           w4 == Log(Log(w3, "kernel", "sum", name), "kernel", "add", name)
       IN IF w2.err # "none" THEN Release(w2, "args")
          ELSE Release(mvlgamma_reduce(w4, name, t.shape, p), "args")

mvlgamma(w, self, x) ==
  LET w1 == mvlgamma_check(w, self, x.p)
      out == NextName(w)
  IN Return(mvlgamma_sum(w1, out, self, x.p), out)

mvlgamma_(w, self, x) ==
  LET w1 == mvlgamma_check(w, self, x.p)
      tmp == NextName(w)
  IN Return(copy_(mvlgamma_sum(w1, tmp, self, x.p), self, tmp), self)

\* ----------------------------------------------------------- entry points
ViewOps == {"real", "imag"}

\* The operations with an out-of-place form op(self) that computes a result.
OutOfPlaceOps ==
  PlainOps \cup RoundingOps \cup ClampOps \cup MacroOps \cup
  {"neg", "abs", "angle", "rad2deg", "deg2rad", "square", "logical_not",
   "polygamma", "mvlgamma"}

\* The operations with an into-buffer form op_out(result, self).
IntoOps ==
  PlainOps \cup RoundingOps \cup ClampOps \cup MacroOps \cup
  {"neg", "abs", "angle", "rad2deg", "deg2rad", "logical_not", "polygamma"}

\* The operations with an in-place form op_(self).
InPlaceOps ==
  (PlainOps \ {"conj"}) \cup RoundingOps \cup ClampOps \cup MacroOps \cup
  {"neg", "abs", "rad2deg", "deg2rad", "square", "logical_not", "polygamma",
   "mvlgamma"}

\* op(self)
apply(w, op, self, x) ==
  CASE op \in PlainOps \cup RoundingOps \cup {"neg", "rad2deg", "deg2rad"} ->
         unary_op_impl(w, self, op, x)
    [] op \in {"abs", "angle"} -> unary_op_impl_with_complex_to_float(w, self, op, x)
    [] op = "real" -> real(w, self)
    [] op = "imag" -> imag(w, self)
    [] op = "square" -> square(w, self, x)
    [] op = "logical_not" -> logical_not(w, self, x)
    [] op \in ClampOps -> clamp(w, op, self, x)
    [] op = "polygamma" -> polygamma(w, self, x)
    [] op = "mvlgamma" -> mvlgamma(w, self, x)
    [] op \in MacroOps -> macro_core(w, op, self, x)

\* op_out(result, self); for erfinv and lgamma the form _op_out_<prefix>.
apply_into(w, op, result, self, x) ==
  IF op \in MacroOps THEN macro_out(w, op, x.prefix, result, self, x)
  ELSE at_out(w, op, result, self, x)

\* op_(self)
apply_in_place(w, op, self, x) ==
  CASE op \in PlainOps \cup RoundingOps \cup {"neg", "rad2deg", "deg2rad", "abs"} ->
         unary_op_impl_(w, self, op, x)
    [] op = "square" -> square_(w, self, x)
    [] op = "logical_not" -> logical_not_(w, self, x)
    [] op \in ClampOps -> clamp_(w, op, self, x)
    [] op = "polygamma" -> polygamma_(w, self, x)
    [] op = "mvlgamma" -> mvlgamma_(w, self, x)
    [] op \in MacroOps -> macro_(w, op, self, x)

\* ------------------------------------------------------------------ inputs
Devices == {"CPU", "CUDA"}
Layouts == {"Strided", "Sparse"}

\* The dispatch tables of a build: kernels for every device, or for CPU only.
Tables == {[d \in Devices |-> TRUE], [d \in Devices |-> d = "CPU"]}

\* The values uninitialized memory may hold.
Uninit == {0, 5}

\* The shapes of a caller's tensors: a scalar, or one dimension.
Shapes == {<<>>} \cup {<<n>> : n \in 1..MaxSize}

\* Two fillings of the input's cells: 1, 2, 3, ... and 0, -60, -120, ...
Fill(f, d, n) == [c \in 1..n |-> CastRe(d, <<IF f = 1 THEN c ELSE 60 * (1 - c), 0>>)]

\* The scalar arguments of a call; a field an operation does not take has
\* one value.
Args(op, into) ==
  {[n |-> n, p |-> p, hasMin |-> hm, hasMax |-> hx, min |-> 0, max |-> 1, prefix |-> pf] :
     n \in IF op = "polygamma" THEN -1..MaxOrder ELSE {0},
     p \in IF op = "mvlgamma" THEN 0..MaxOrder ELSE {1},
     hm \in IF op = "clamp" THEN BOOLEAN ELSE {op = "clamp_min"},
     hx \in IF op = "clamp" THEN BOOLEAN ELSE {op = "clamp_max"},
     pf \in IF op \in MacroOps /\ into THEN Devices ELSE {"CPU"}}

\* The memory before a call: the input self, contiguous over its own storage.
World(d, shape, f, device, layout, table, junk) ==
  [t |-> ("self" :> [st |-> "self", off |-> 0, shape |-> shape,
                     strides |-> ContigStrides(shape, d), dtype |-> d,
                     device |-> device, layout |-> layout]),
   mem |-> ("self" :> Fill(f, d, CellsPer(d) * Numel(shape))),
   trace |-> <<>>, err |-> "none", ret |-> "none", table |-> table, junk |-> junk]

\* The outputs a caller may pass to an into-buffer form: self itself, a
\* tensor over its own storage (shape [0] when not yet materialised), or
\* another view of self's storage.
OutConfigs(w) ==
  LET s == w.t["self"] IN
  {[kind |-> "same", dtype |-> s.dtype, shape |-> s.shape, off |-> 0, step |-> 1]}
  \cup
  {[kind |-> "distinct", dtype |-> d, shape |-> sh, off |-> 0, step |-> 1] :
     d \in DTypes, sh \in Shapes \cup {<<0>>}}
  \cup
  {c \in [kind : {"overlap"}, dtype : {s.dtype, toValueType(s.dtype)}, shape : Shapes,
          off : 0..1, step : 1..2] :
     LET v == [s EXCEPT !.off = c.off, !.shape = c.shape, !.dtype = c.dtype,
                        !.strides = [k \in 1..Len(c.shape) |->
                                       c.step * ContigStrides(c.shape, c.dtype)[k]]]
     IN /\ \A cell \in CellsOf(v) : cell < Len(w.mem["self"])
        /\ PartialOverlap(v, s)}

\* The name of the result argument of a configuration.
ResultName(c) == IF c.kind = "same" THEN "self" ELSE "out"

\* The memory with the caller's output added.
WithOut(w, c) ==
  LET s == w.t["self"] IN
  CASE c.kind = "same" -> w
    [] c.kind = "distinct" ->
         [w EXCEPT
            !.t = @ @@ ("out" :> [st |-> "out", off |-> 0, shape |-> c.shape,
                                  strides |-> ContigStrides(c.shape, c.dtype),
                                  dtype |-> c.dtype, device |-> s.device,
                                  layout |-> s.layout]),
            !.mem = @ @@ ("out" :> [k \in 1..(CellsPer(c.dtype) * Numel(c.shape)) |->
                                     CastRe(c.dtype, <<7, 0>>)])]
    [] c.kind = "overlap" ->
         [w EXCEPT
            !.t = @ @@ ("out" :> [s EXCEPT !.off = c.off, !.shape = c.shape,
                                    !.dtype = c.dtype,
                                    !.strides = [k \in 1..Len(c.shape) |->
                                       c.step * ContigStrides(c.shape, c.dtype)[k]]])]

\* ----------------------------------------------------------- state machine
VARIABLES
  pre,   \* the memory when the call was made
  post,  \* the memory now: the call's effects, its trace, failure and result
  call,  \* the call made: operation, form, scalar arguments, result argument
  pc     \* "ready" before the call, "done" after it

vars == <<pre, post, call, pc>>

NoCall ==
  [op |-> "none", form |-> "none", x |-> CHOOSE x \in Args("none", FALSE) : TRUE,
   result |-> "none"]

\* The CPU kernels are part of every build.
Init ==
  /\ pc = "ready"
  /\ call = NoCall
  /\ \E d \in DTypes, shape \in Shapes, f \in 1..2, device \in Devices,
        layout \in Layouts, table \in Tables, junk \in Uninit :
        /\ device = "CPU" => table["CUDA"]
        /\ pre = World(d, shape, f, device, layout, table, junk)
  /\ post = pre

\* The operations whose forms check a tensor's layout: a sparse tensor is
\* passed to these only (no other form reads the layout).
LayoutCheckedOps == ClampOps \cup MacroOps

Callable(op) == pre.t["self"].layout = "Strided" \/ op \in LayoutCheckedOps

\* op(self): the out-of-place form.
Apply ==
  /\ pc = "ready"
  /\ \E op \in {o \in OutOfPlaceOps : Callable(o)} : \E x \in Args(op, FALSE) :
       /\ post' = apply(pre, op, "self", x)
       /\ call' = [op |-> op, form |-> "op", x |-> x, result |-> "none"]
  /\ pc' = "done"
  /\ UNCHANGED pre

\* op_out(result, self): the into-buffer form, on a caller's output.
ApplyInto ==
  /\ pc = "ready"
  /\ \E op \in {o \in IntoOps : Callable(o)} : \E x \in Args(op, TRUE) : \E c \in OutConfigs(pre) :
       /\ pre' = WithOut(pre, c)
       /\ post' = apply_into(WithOut(pre, c), op, ResultName(c), "self", x)
       /\ call' = [op |-> op, form |-> "out", x |-> x, result |-> ResultName(c)]
  /\ pc' = "done"

\* op_(self): the in-place form.
ApplyInPlace ==
  /\ pc = "ready"
  /\ \E op \in {o \in InPlaceOps : Callable(o)} : \E x \in Args(op, FALSE) :
       /\ post' = apply_in_place(pre, op, "self", x)
       /\ call' = [op |-> op, form |-> "inplace", x |-> x, result |-> "self"]
  /\ pc' = "done"
  /\ UNCHANGED pre

\* real(self), imag(self): the view extraction.
ApplyView ==
  /\ pc = "ready"
  /\ \E op \in ViewOps :
       /\ post' = apply(pre, op, "self", CHOOSE x \in Args(op, FALSE) : TRUE)
       /\ call' = [op |-> op, form |-> "view", x |-> CHOOSE x \in Args(op, FALSE) : TRUE,
                   result |-> "none"]
  /\ pc' = "done"
  /\ UNCHANGED pre

Next == Apply \/ ApplyInto \/ ApplyInPlace \/ ApplyView

Spec == Init /\ [][Next]_vars

\* -------------------------------------------------------------- properties
Done == pc = "done"

Succeeded == Done /\ post.err = "none"

Failed == Done /\ post.err # "none"

\* The positions of the trace at which a step of kind e was taken.
Events(w, e) == {k \in DOMAIN w.trace : w.trace[k].ev = e}

\* A caller's view is as it was when the call was made: shape, strides,
\* dtype and elements.
ViewUnchanged(name) ==
  /\ post.t[name] = pre.t[name]
  /\ Contents(post.mem, post.t[name]) = Contents(pre.mem, pre.t[name])

\* Nothing the caller held when the call was made has changed.
CallerMemoryUnchanged ==
  /\ \A name \in DOMAIN pre.t : post.t[name] = pre.t[name]
  /\ \A st \in DOMAIN pre.mem : post.mem[st] = pre.mem[st]

\* C1: a call that fails has raised its failure before any kernel was
\* invoked, and the caller's output view (shape, dtype, contents) is as it
\* was before the call.
C1_FailureBeforeAnyKernel ==
  Failed =>
    /\ Events(post, "kernel") = {}
    /\ call.result # "none" => ViewUnchanged(call.result)

\* The caller's view `name` of world w and view `other` of world v have the
\* same shape and, element for element, the same values (a real a and the
\* complex a + 0i are the same value, as are True and 1).
SameElements(w, name, v, other) ==
  /\ w.t[name].shape = v.t[other].shape
  /\ Contents(w.mem, w.t[name]) = Contents(v.mem, v.t[other])

\* C2: after op_(x), x equals op(x_copy) element for element, for every
\* operation with both forms and every input both accept; the dtypes agree
\* too, except for abs on a complex x (x stays complex, abs(x) is real) and
\* logical_not (x keeps its dtype, logical_not(x) is boolean).
C2_InPlaceAgreesWithOutOfPlace ==
  (Done /\ call.form = "inplace") =>
    LET q == apply(pre, call.op, "self", call.x) IN
    (post.err = "none" /\ q.err = "none") =>
      /\ SameElements(post, "self", q, q.ret)
      /\ \/ post.t["self"].dtype = q.t[q.ret].dtype
         \/ /\ call.op = "abs"
            /\ isComplexType(pre.t["self"].dtype)
            /\ q.t[q.ret].dtype = toValueType(pre.t["self"].dtype)
         \/ call.op = "logical_not" /\ q.t[q.ret].dtype = "Bool"

\* abs_ has run on a complex x and has changed it.
C2_Witness ==
  /\ Succeeded /\ call.form = "inplace" /\ call.op = "abs"
  /\ isComplexType(pre.t["self"].dtype)
  /\ post.mem["self"] # pre.mem["self"]

\* The into-buffer form an in-place form stands for: square_ is pow_out.
IntoFormOf(op) == IF op = "square" THEN "pow" ELSE op

\* op_out(self, self), made on the memory the call was made on.
IntoSelf ==
  apply_into(pre, IntoFormOf(call.op), "self", "self",
             [call.x EXCEPT !.prefix = pre.t["self"].device])

\* A plan was built with self as both output and input.
PlanOverSelf == \E k \in Events(post, "plan") : post.trace[k] = Event("plan", "self", "self")

\* C3 as claimed: every in-place form, mvlgamma_ included, does what
\* op_out(self, self) does: the same checks, a plan with self as output and
\* input, the same kernel calls, contents and failures, and it returns self.
C3_InPlaceIsIntoSelf_AllForms ==
  (Done /\ call.form = "inplace") =>
    /\ call.op # "mvlgamma" => post = IntoSelf
    /\ post.err = "none" => (post.ret = "self" /\ PlanOverSelf)

\* C3 as amended: every in-place form but mvlgamma_ does what
\* op_out(self, self) does and returns self after a plan over (self, self);
\* mvlgamma_, which has no into-buffer form, fails as mvlgamma does and ends
\* by copying a fresh temporary, holding what mvlgamma returns, into self,
\* which it returns.
C3_InPlaceIsIntoSelf ==
  (Done /\ call.form = "inplace") =>
    IF call.op # "mvlgamma"
    THEN /\ post = IntoSelf
         /\ post.err = "none" => (post.ret = "self" /\ PlanOverSelf)
    ELSE LET q == apply(pre, "mvlgamma", "self", call.x) IN
         /\ post.err = q.err
         /\ post.err = "none" =>
              /\ post.ret = "self"
              /\ post.trace[Len(post.trace)].ev = "copy"
              /\ post.trace[Len(post.trace)].a = "self"
              /\ post.trace[Len(post.trace)].b \notin DOMAIN pre.t
              /\ SameElements(post, "self", q, q.ret)

\* square_ has run through pow_out(self, self) and has changed self.
C3_Witness ==
  /\ Succeeded /\ call.form = "inplace" /\ call.op = "square"
  /\ PlanOverSelf
  /\ post.mem["self"] # pre.mem["self"]

\* C4: abs(x) and angle(x) on a complex x return a tensor of the real-valued
\* counterpart of x's dtype; abs_out and angle_out on a complex x and a
\* Bool or Long output (one a floating value cannot be cast into) fail
\* with InvalidCast, having allocated nothing and invoked no kernel.
C4_ComplexToRealDtype ==
  (Done /\ call.op \in {"abs", "angle"} /\ isComplexType(pre.t["self"].dtype)) =>
    /\ (call.form = "op" /\ post.err = "none") =>
         /\ pre.t["self"].dtype = "ComplexFloat" => post.t[post.ret].dtype = "Float"
         /\ pre.t["self"].dtype = "ComplexDouble" => post.t[post.ret].dtype = "Double"
    /\ (call.form = "out" /\ pre.t[call.result].dtype \in {"Bool", "Long"}) =>
         /\ post.err = "InvalidCast"
         /\ Events(post, "alloc") = {}
         /\ Events(post, "lookup") = {}
         /\ Events(post, "kernel") = {}
         /\ CallerMemoryUnchanged

\* angle_out has rejected a Long output for a complex input.
C4_Witness ==
  /\ Failed /\ call.form = "out" /\ call.op = "angle"
  /\ pre.t["self"].dtype = "ComplexDouble"
  /\ pre.t[call.result].dtype = "Long"
  /\ post.err = "InvalidCast"

\* The dtypes an operation rejects by a check of the input's dtype.
RejectedInput ==
  \/ call.op \in RoundingOps \cup ClampOps /\ isComplexType(pre.t["self"].dtype)
  \/ call.op = "neg" /\ pre.t["self"].dtype = "Bool"

\* C5: in all three forms ceil, floor, trunc, clamp, clamp_min, clamp_max
\* on a complex input and neg on a bool input fail with UnsupportedDtype,
\* by a check that is the last step taken: no plan is built, no kernel is
\* looked up or invoked, and nothing the caller held has changed.
C5_DomainRejection ==
  (Done /\ RejectedInput) =>
    /\ post.err = "UnsupportedDtype"
    /\ post.trace # <<>>
    /\ post.trace[Len(post.trace)] = Event("check", "UnsupportedDtype", "")
    /\ Events(post, "plan") = {}
    /\ Events(post, "lookup") = {}
    /\ Events(post, "kernel") = {}
    /\ CallerMemoryUnchanged

\* neg_ has rejected a bool tensor.
C5_Witness ==
  /\ Failed /\ call.form = "inplace" /\ call.op = "neg"
  /\ pre.t["self"].dtype = "Bool"
  /\ post.err = "UnsupportedDtype"

\* The call is an into-buffer call whose output overlaps the input's storage
\* without being the same view.
OverlappingOutput ==
  /\ Done /\ call.form = "out"
  /\ PartialOverlap(pre.t[call.result], pre.t["self"])

\* The call takes the temporary path of abs_out and angle_out.
ComplexToFloatPath ==
  /\ call.op \in {"abs", "angle"}
  /\ isComplexType(pre.t["self"].dtype)
  /\ ~isComplexType(pre.t[call.result].dtype)

\* The failure was raised by a check of the operation, the last step taken.
FailedByCheck ==
  /\ post.trace # <<>>
  /\ post.trace[Len(post.trace)] = Event("check", post.err, "")

\* C6 as claimed: every into-buffer call whose output overlaps the input
\* other than by exact self-aliasing fails with UnsafeAliasing and invokes
\* no kernel, whatever path it takes; an output that is the input is accepted.
C6_OverlapRejected_EveryPath ==
  /\ OverlappingOutput => (post.err = "UnsafeAliasing" /\ Events(post, "kernel") = {})
  /\ (Done /\ call.form = "out" /\ call.result = "self") => post.err # "UnsafeAliasing"

\* C6 as amended: off the temporary path such a call fails, builds no plan
\* and invokes no kernel, with UnsafeAliasing unless a check of the operation
\* made before the plan builder rejects it first; on the temporary path
\* of abs_out and angle_out the overlap check is over the fresh temporary:
\* the call never fails with UnsafeAliasing, and when the cast is legal and
\* the device has a kernel it succeeds and writes the overlapping output.
\* An output that is the input is never rejected as aliasing.
C6_OverlapRejected ==
  /\ (OverlappingOutput /\ ~ComplexToFloatPath) =>
       /\ post.err = "UnsafeAliasing" \/ (post.err # "none" /\ FailedByCheck)
       /\ Events(post, "plan") = {}
       /\ Events(post, "kernel") = {}
       /\ CallerMemoryUnchanged
  /\ (OverlappingOutput /\ ComplexToFloatPath) =>
       /\ post.err # "UnsafeAliasing"
       /\ (pre.t[call.result].dtype \in FloatingTypes /\ pre.table[pre.t["self"].device]) =>
            /\ post.err = "none"
            /\ post.trace[Len(post.trace)] = Event("copy", call.result, "t1")
  /\ (Done /\ call.form = "out" /\ call.result = "self") => post.err # "UnsafeAliasing"

\* sin_out has rejected an output that overlaps its input.
C6_Witness ==
  /\ OverlappingOutput /\ call.op = "sin"
  /\ post.err = "UnsafeAliasing"
  /\ Events(post, "kernel") = {}

\* The memory with self explicitly broadcast to shape b: a contiguous tensor
\* of shape b holding self's elements.
ExplicitBroadcast(w, b) ==
  LET s == w.t["self"]
      e == [s EXCEPT !.shape = b, !.strides = ContigStrides(b, s.dtype), !.off = 0]
      blank == [w.mem EXCEPT !["self"] = [k \in 1..(CellsPer(s.dtype) * Numel(b)) |-> 0]]
  IN [w EXCEPT !.t["self"] = e,
               !.mem = WriteAll(blank, e,
                 [i \in Indices(b) |-> ReadElem(w.mem, s, BroadcastIndex(s.shape, b, i))])]

\* An into-buffer call has returned, on an output of a shape (not the
\* unmaterialised [0]) the input broadcasts to.
BroadcastCall ==
  /\ Succeeded /\ call.form = "out"
  /\ pre.t[call.result].shape \in Shapes
  /\ BroadcastableTo(pre.t["self"].shape, pre.t[call.result].shape)

\* The returned output has shape b and the values of op on self explicitly
\* broadcast to b.
ReturnsBroadcast(b) ==
  LET q == apply(ExplicitBroadcast(pre, b), call.op, "self", call.x) IN
  /\ q.err = "none"
  /\ post.t[post.ret].shape = b
  /\ SameElements(post, post.ret, q, q.ret)

\* C7 as claimed: on every path an A-shaped input and a B-shaped output, A
\* broadcastable to B, give an output of shape B holding the operation
\* applied to the input explicitly broadcast to B.
C7_BroadcastIntoOutput_EveryPath ==
  BroadcastCall => ReturnsBroadcast(pre.t[call.result].shape)

\* C7 as amended: so it is off the temporary path; on the temporary path of
\* abs_out and angle_out the output is resized to the temporary's shape,
\* which is A, and holds the operation applied to the input as it is.
C7_BroadcastIntoOutput ==
  BroadcastCall =>
    /\ post.ret = call.result
    /\ IF ComplexToFloatPath
       THEN ReturnsBroadcast(pre.t["self"].shape)
       ELSE ReturnsBroadcast(pre.t[call.result].shape)

\* abs_out has resized a [2]-shaped real output to the shape of its scalar
\* complex input.
C7_Witness ==
  /\ BroadcastCall /\ ComplexToFloatPath
  /\ pre.t["self"].shape = <<>>
  /\ pre.t[call.result].shape = <<2>>
  /\ post.t[call.result].shape = <<>>

\* The component real (0) or imag (1) selects.
ComponentOf(op) == IF op = "real" THEN 1 ELSE 2

\* C8: real and imag fail with UnsupportedDtype on a non-complex input; on
\* a complex input of shape S they return a view of shape S and of the
\* real-valued dtype over the input's storage, whose elements are the real
\* (imaginary) components; nothing is allocated, no plan is built, no
\* kernel is looked up or invoked, and the input and the memory are unchanged.
C8_RealImagAreViews ==
  (Done /\ call.form = "view") =>
    /\ Events(post, "alloc") = {}
    /\ Events(post, "plan") = {}
    /\ Events(post, "lookup") = {}
    /\ Events(post, "kernel") = {}
    /\ CallerMemoryUnchanged
    /\ DOMAIN post.mem = DOMAIN pre.mem
    /\ IF isComplexType(pre.t["self"].dtype)
       THEN /\ post.err = "none"
            /\ post.t[post.ret].st = pre.t["self"].st
            /\ post.t[post.ret].shape = pre.t["self"].shape
            /\ post.t[post.ret].dtype \in FloatingTypes
            /\ post.t[post.ret].dtype = "Double" <=> pre.t["self"].dtype = "ComplexDouble"
            /\ \A i \in Indices(pre.t["self"].shape) :
                 ReadElem(post.mem, post.t[post.ret], i) =
                   <<ReadElem(pre.mem, pre.t["self"], i)[ComponentOf(call.op)], 0>>
       ELSE post.err = "UnsupportedDtype"

\* imag has returned a view of a [2]-shaped complex tensor.
C8_Witness ==
  /\ Succeeded /\ call.op = "imag"
  /\ pre.t["self"].shape = <<2>>
  /\ post.t[post.ret].st = "self"
  /\ post.t[post.ret].off = 1

DigammaFamily == {"digamma", "polygamma", "mvlgamma"}

\* C9: every digamma-family call on a non-floating input (with a valid
\* order or multiplicity, on a device that has kernels, the output not
\* overlapping the input) fails with UnsupportedDtype, by a check made
\* before a plan is built and before any kernel is looked up or invoked.
C9_DigammaFamilyValidatesDtype ==
  (/\ Done /\ call.op \in DigammaFamily /\ ~isFloatingType(pre.t["self"].dtype)
   /\ call.x.n >= 0 /\ call.x.p >= 1 /\ pre.table[pre.t["self"].device]
   /\ call.form = "out" => ~PartialOverlap(pre.t[call.result], pre.t["self"])) =>
    /\ post.err = "UnsupportedDtype"
    /\ Events(post, "plan") = {}
    /\ Events(post, "lookup") = {}
    /\ Events(post, "kernel") = {}

\* C10: the out-of-place form changes nothing the caller held (x keeps its
\* shape, dtype and contents, also on failure); what it returns is a fresh
\* tensor over a fresh storage, and every kernel, resize and copy of the call
\* writes a tensor allocated by the call.
C10_OutOfPlaceLeavesInput ==
  (Done /\ call.form = "op") =>
    /\ CallerMemoryUnchanged
    /\ ViewUnchanged("self")
    /\ \A k \in Events(post, "kernel") :
         post.trace[k].b # "" => post.trace[k].b \notin DOMAIN pre.t
    /\ \A k \in Events(post, "resize") \cup Events(post, "copy") :
         post.trace[k].a \notin DOMAIN pre.t
    /\ post.err = "none" =>
         /\ post.ret \notin DOMAIN pre.t
         /\ post.t[post.ret].st \notin DOMAIN pre.mem
         /\ \E k \in Events(post, "alloc") : post.trace[k].a = post.ret

\* sin has returned a fresh tensor whose values are not x's.
C10_Witness ==
  /\ Succeeded /\ call.form = "op" /\ call.op = "sin"
  /\ post.ret = "t1"
  /\ post.mem["t1"] # pre.mem["self"]
  /\ post.mem["self"] = pre.mem["self"]

\* The kernel the bounds of a clamp call select.
ClampStubFor(x) ==
  IF x.hasMin /\ x.hasMax THEN "clamp" ELSE IF x.hasMax THEN "clamp_max" ELSE "clamp_min"

\* C11: clamp_out on a non-complex input chooses its kernel by the bounds
\* present: with neither it fails with InvalidArgument and nothing is
\* planned, looked up or invoked; with both, only max or only min, no
\* kernel but the fused, the max-only or the min-only one is looked up or
\* invoked, at most once, and exactly once when the call succeeds; with a
\* bound given, an input that is not strided fails with UnsupportedLayout
\* before a plan is built.
C11_ClampKernelByBounds ==
  (Done /\ call.op = "clamp" /\ ~isComplexType(pre.t["self"].dtype)) =>
    LET K == Events(post, "kernel")
        L == Events(post, "lookup")
    IN IF ~call.x.hasMin /\ ~call.x.hasMax
       THEN /\ post.err = "InvalidArgument"
            /\ Events(post, "plan") = {} /\ L = {} /\ K = {}
       ELSE /\ \A k \in K \cup L : post.trace[k].a = ClampStubFor(call.x)
            /\ Cardinality(K) <= 1 /\ Cardinality(L) <= 1
            /\ post.err = "none" => (Cardinality(K) = 1 /\ post.ret # "none")
            /\ pre.t["self"].layout # "Strided" =>
                 /\ post.err = "UnsupportedLayout"
                 /\ Events(post, "plan") = {} /\ L = {} /\ K = {}

\* clamp_out with only max has run the max-only kernel on its output.
C11_Witness ==
  /\ Succeeded /\ call.op = "clamp" /\ call.form = "out"
  /\ call.x.hasMax /\ ~call.x.hasMin
  /\ \E k \in Events(post, "kernel") : post.trace[k] = Event("kernel", "clamp_max", call.result)
  /\ post.mem[post.t[call.result].st] # pre.mem[pre.t[call.result].st]

\* s is an initial part of t.
IsPrefix(s, t) == Len(s) <= Len(t) /\ SubSeq(t, 1, Len(s)) = s

\* The steps of the temporary path of abs_out and angle_out, in order, for
\* the output `result` and the temporary `tmp`.
TemporaryPathSteps(result, tmp) ==
  <<Event("check", "InvalidCast", ""),
    Event("alloc", tmp, pre.t["self"].dtype),
    Event("resize", tmp, ""),
    Event("plan", tmp, "self"),
    Event("lookup", call.op, pre.t["self"].device),
    Event("kernel", call.op, tmp),
    Event("resize", result, ""),
    Event("copy", result, tmp)>>

\* C12: abs_out and angle_out take the temporary path exactly when the
\* input is complex and the caller's output is not.  On it the steps are, in
\* this order and with no other step between them: the cast check, the
\* allocation of a temporary of the input's dtype, the plan over the
\* temporary (materialised with the input's shape), the kernel lookup, the
\* kernel writing the temporary, the resize of the output, the copy of the
\* temporary into the output; a failed call has stopped within this order.
\* Off that path nothing is checked for a cast, allocated or copied, and the
\* kernel writes the caller's output.
C12_TemporaryPathOrder ==
  (Done /\ call.form = "out" /\ call.op \in {"abs", "angle"}) =>
    IF ComplexToFloatPath
    THEN LET steps == TemporaryPathSteps(call.result, "t1") IN
         /\ "t1" \notin DOMAIN pre.t
         /\ IsPrefix(post.trace, steps)
         /\ post.err = "none" <=> post.trace = steps
         /\ post.err = "none" =>
              /\ post.ret = call.result
              /\ post.t["t1"].dtype = pre.t["self"].dtype
              /\ post.t["t1"].st \notin DOMAIN pre.mem
              /\ post.t[call.result].shape = post.t["t1"].shape
         /\ Events(post, "copy") = {} => ViewUnchanged(call.result)
    ELSE /\ Events(post, "check") = {}
         /\ Events(post, "alloc") = {}
         /\ Events(post, "copy") = {}
         /\ DOMAIN post.t = DOMAIN pre.t
         /\ \A k \in Events(post, "kernel") : post.trace[k] = Event("kernel", call.op, call.result)
         /\ post.err = "none" => Cardinality(Events(post, "kernel")) = 1

\* angle_out has computed into a temporary and copied it into a Double
\* output it had to resize.
C12_Witness ==
  /\ Succeeded /\ call.form = "out" /\ call.op = "angle"
  /\ ComplexToFloatPath
  /\ pre.t[call.result].dtype = "Double"
  /\ pre.t[call.result].shape # pre.t["self"].shape
  /\ post.trace[Len(post.trace)] = Event("copy", call.result, "t1")

\* The operations whose forms invoke a dispatch stub of the file.
StubOps ==
  PlainOps \cup RoundingOps \cup ClampOps \cup MacroOps \cup
  {"neg", "abs", "angle", "logical_not", "polygamma"}

\* The one position of the trace at which a step of kind e was taken.
TheEvent(w, e) == CHOOSE k \in Events(w, e) : TRUE

\* C13: a successful call of a stub-dispatched operation, in any form, has
\* built one plan, looked up one kernel and invoked one kernel, in this
\* order, after every check of the operation; the plan reads self and its
\* output does not overlap self other than by being self (the overlap check
\* was made); the lookup is for the device of the plan's output; the kernel
\* invoked is the one looked up and writes the plan's output; the call
\* returns an output after the kernel, which is the plan's output or, on the
\* temporary path of abs and angle, a copy of it made after the kernel.
\* The one stub call made within mvlgamma and mvlgamma_, lgamma_ on the
\* local args, goes through the same steps, once and with nothing between.
C13_StepsInOrder ==
  /\ (Succeeded /\ call.op = "mvlgamma") =>
       /\ Cardinality(Events(post, "plan")) = 1
       /\ Cardinality(Events(post, "lookup")) = 1
       /\ LET p == TheEvent(post, "plan") IN
          /\ p > 2 /\ p + 2 <= Len(post.trace)
          /\ SubSeq(post.trace, p - 2, p + 2) =
               <<Event("check", "UnsupportedDevice", ""),
                 Event("check", "UnsupportedLayout", ""),
                 Event("plan", "args", "args"),
                 Event("lookup", "lgamma", pre.t["self"].device),
                 Event("kernel", "lgamma", "args")>>
  /\ (Succeeded /\ call.op \in StubOps) =>
    /\ Cardinality(Events(post, "plan")) = 1
    /\ Cardinality(Events(post, "lookup")) = 1
    /\ Cardinality(Events(post, "kernel")) = 1
    /\ LET p == TheEvent(post, "plan")
           l == TheEvent(post, "lookup")
           k == TheEvent(post, "kernel")
           out == post.trace[p].a
       IN /\ \A c \in Events(post, "check") : c < p
          /\ p < l /\ l < k
          /\ post.trace[p].b = "self"
          /\ ~PartialOverlap(post.t[out], pre.t["self"])
          /\ post.trace[l].b = post.t[out].device
          /\ post.trace[k] = Event("kernel", post.trace[l].a, out)
          /\ post.ret \in DOMAIN post.t
          /\ \/ post.ret = out /\ k = Len(post.trace)
             \/ /\ isComplexType(pre.t["self"].dtype) /\ call.op \in {"abs", "angle"}
                /\ post.trace[Len(post.trace)] = Event("copy", post.ret, out)
                /\ k < Len(post.trace)

\* erfinv's into-buffer form for the CPU has checked the device and the
\* layout, planned, looked up and invoked its kernel, and nothing else.
C13_Witness ==
  /\ Succeeded /\ call.form = "out" /\ call.op = "erfinv"
  /\ pre.t[call.result].shape = pre.t["self"].shape
  /\ post.trace = <<Event("check", "UnsupportedDevice", ""),
                    Event("check", "UnsupportedLayout", ""),
                    Event("plan", call.result, "self"),
                    Event("lookup", "erfinv", "CPU"),
                    Event("kernel", "erfinv", call.result)>>
====
